---------------------------- MODULE Spec2Model ----------------------------
(***************************************************************************)
(* Tien Len (jonnyle2/tien-len): the card model (deck.py), the combination *)
(* rules (rule.py), the hot-seat game loop (main.py, start_game) and the   *)
(* network table (server.py, Table / Game / Round).                        *)
(*                                                                         *)
(* A card is the tuple <<rank, suit>>, as the NamedTuple Card(rank, suit); *)
(* Python orders such tuples lexicographically.                            *)
(***************************************************************************)
EXTENDS Integers, Sequences, FiniteSets, TLC

-----------------------------------------------------------------------------
(* deck.py *)

SPADES == 1
CLUBS == 2
DIAMONDS == 3
HEARTS == 4
Suit == SPADES..HEARTS

THREE == 3
TWO == 15
Rank == THREE..TWO

Card(rank, suit) == <<rank, suit>>

DECK == {Card(rank, suit) : rank \in Rank, suit \in Suit}

\* tuple comparison of two cards: rank first, suit second
CardLT(a, b) == a[1] < b[1] \/ (a[1] = b[1] /\ a[2] < b[2])

\* min(cards) and max(cards) of a non-empty collection of cards
MinCard(cards) == CHOOSE c \in cards : \A d \in cards : d = c \/ CardLT(c, d)
MaxCard(cards) == CHOOSE c \in cards : \A d \in cards : d = c \/ CardLT(d, c)

\* sorted(cards) as a sequence
RECURSIVE SortedCards(_)
SortedCards(cards) ==
    IF cards = {} THEN <<>>
    ELSE LET m == MinCard(cards) IN <<m>> \o SortedCards(cards \ {m})

RanksOf(cards) == {c[1] : c \in cards}

-----------------------------------------------------------------------------
(* rule.py: instant wins *)

DRAGON_SEQUENCE == Rank \ {TWO}
has_dragon_sequence(hand) == DRAGON_SEQUENCE \subseteq RanksOf(hand)

FOUR_TWOS == {Card(TWO, suit) : suit \in Suit}
has_four_twos(hand) == FOUR_TWOS \subseteq hand

\* Counter(card.rank for card in hand): rank -> number of cards of the rank
hand_count(hand) == [r \in RanksOf(hand) |-> Cardinality({c \in hand : c[1] = r})]

\* a three-quads test that also asks for four cards of each rank
has_three_quads_sizes(count) ==
    Cardinality(DOMAIN count) = 3 /\ \A r \in DOMAIN count : count[r] = 4

\* a three-quads test that counts the ranks held four times
has_three_quads_held(count) == Cardinality({r \in DOMAIN count : count[r] = 4}) >= 3

has_three_quads(count) == Cardinality(DOMAIN count) = 3
has_four_triples(count) == Cardinality(DOMAIN count) = 4

RECURSIVE SumDoubles(_, _)
SumDoubles(count, ranks) ==
    IF ranks = {} THEN 0
    ELSE LET r == CHOOSE x \in ranks : TRUE
         IN (count[r] \div 2) + SumDoubles(count, ranks \ {r})
has_six_pairs(count) == SumDoubles(count, DOMAIN count) = 6

None == "None"

has_instant_win(hand) ==
    IF has_dragon_sequence(hand) THEN "dragon sequence"
    ELSE IF has_four_twos(hand) THEN "four twos"
    ELSE IF has_three_quads(hand_count(hand)) THEN "three quads"
    ELSE IF has_four_triples(hand_count(hand)) THEN "four triples"
    ELSE IF has_six_pairs(hand_count(hand)) THEN "six pairs"
    ELSE None

-----------------------------------------------------------------------------
(* rule.py: combinations.  A combination is [type, cards]; the classes      *)
(* keep the cards they were built from (card_1.., cards) and nothing else.  *)

SameRank(cards) == \A a, b \in cards : a[1] = b[1]

\* a Triple test that lets any three cards through
TripleOK_any(cards) == TRUE

\* a Straight test without the ban on twos
StraightOK_twos(cards) ==
    /\ ~(Cardinality(cards) < 3)
    /\ LET sorted_cards == SortedCards(cards)
       IN \A i \in 2..Len(sorted_cards) :
              sorted_cards[i][1] = sorted_cards[1][1] + (i - 1)

\* Pair.__post_init__, Triple.__post_init__, Quad.__post_init__
PairOK(cards) == SameRank(cards)
TripleOK(cards) == SameRank(cards)
QuadOK(cards) == SameRank(cards)

\* Straight.__post_init__: no ValueError raised
StraightOK(cards) ==
    /\ ~(Cardinality(cards) < 3)
    /\ ~(\E c \in cards : c \in FOUR_TWOS)
    /\ LET sorted_cards == SortedCards(cards)
       IN \A i \in 2..Len(sorted_cards) :
              sorted_cards[i][1] = sorted_cards[1][1] + (i - 1)

\* SequentialPairs.__post_init__: no ValueError raised.  pairwise() yields
\* the overlapping pairs (s0,s1), (s1,s2), ...
SequentialPairsOK(cards) ==
    /\ ~(Cardinality(cards) < 6)
    /\ ~(Cardinality(cards) % 2 # 0)
    /\ ~(\E c \in cards : c \in FOUR_TWOS)
    /\ LET sorted_cards == SortedCards(cards)
       IN /\ ~(\E i \in 1..(Len(sorted_cards) - 1) :
                   sorted_cards[i][1] # sorted_cards[i + 1][1])
          /\ \A k \in 1..((Len(sorted_cards) - 1) \div 2) :
                 sorted_cards[2 * k + 1][1] = sorted_cards[1][1] + k

Comb(type, cards) == [type |-> type, cards |-> cards]
Invalid == [type |-> "ValueError", cards |-> {}]

\* get_combination(cards); Invalid stands for the ValueError it raises
get_combination(cards) ==
    LET n == Cardinality(cards) IN
    IF n = 1 THEN Comb("Single", cards)
    ELSE IF n = 2 THEN (IF PairOK(cards) THEN Comb("Pair", cards) ELSE Invalid)
    ELSE IF n = 3 THEN
        (IF StraightOK(cards) THEN Comb("Straight", cards)
         ELSE IF TripleOK(cards) THEN Comb("Triple", cards) ELSE Invalid)
    ELSE IF n = 4 THEN
        (IF StraightOK(cards) THEN Comb("Straight", cards)
         ELSE IF QuadOK(cards) THEN Comb("Quad", cards) ELSE Invalid)
    ELSE IF n > 4 THEN
        (IF StraightOK(cards) THEN Comb("Straight", cards)
         ELSE IF SequentialPairsOK(cards) THEN Comb("SequentialPairs", cards)
         ELSE Invalid)
    ELSE Invalid

\* the rank shared by the cards of a Triple or Quad (card_1.rank)
RankOf(comb) == (CHOOSE c \in comb.cards : TRUE)[1]

\* other.card_1 is Rank.TWO: card_1 is a Card, never the Rank member
Card1IsRankTwo(comb) == FALSE

\* Single(Card).__gt__: tuple comparison; NotImplemented against a
\* non-tuple, whose reflected __lt__ raises TypeError
Single_gt(self, other) ==
    IF other.type = "Single"
    THEN (IF CardLT(MaxCard(other.cards), MaxCard(self.cards)) THEN "True" ELSE "False")
    ELSE "TypeError"

Pair_gt(self, other) ==
    IF other.type # "Pair" THEN "TypeError"
    ELSE IF CardLT(MaxCard(other.cards), MaxCard(self.cards)) THEN "True" ELSE "False"

Triple_gt(self, other) ==
    IF other.type # "Triple" THEN "TypeError"
    ELSE IF RankOf(self) > RankOf(other) THEN "True" ELSE "False"

\* a Quad compared with Quads only
Quad_gt_quads(self, other) ==
    IF other.type # "Quad" THEN "TypeError"
    ELSE IF RankOf(self) > RankOf(other) THEN "True" ELSE "False"

Quad_gt(self, other) ==
    IF other.type = "Single" /\ RankOf(other) = TWO THEN "True"
    ELSE IF other.type = "Pair" /\ Card1IsRankTwo(other) THEN "True"
    ELSE IF other.type # "Quad" THEN "TypeError"
    ELSE IF RankOf(self) > RankOf(other) THEN "True" ELSE "False"

Straight_gt(self, other) ==
    IF other.type # "Straight" THEN "TypeError"
    ELSE IF CardLT(MaxCard(other.cards), MaxCard(self.cards)) THEN "True" ELSE "False"

SequentialPairs_gt(self, other) ==
    IF other.type = "Single" /\ RankOf(other) = TWO THEN "True"
    ELSE IF other.type = "Pair" /\ Card1IsRankTwo(other)
            /\ Cardinality(self.cards) > 6 THEN "True"
    ELSE IF other.type = "Triple" /\ Card1IsRankTwo(other)
            /\ Cardinality(self.cards) > 8 THEN "True"
    ELSE IF other.type # "SequentialPairs" THEN "TypeError"
    ELSE IF CardLT(MaxCard(other.cards), MaxCard(self.cards)) THEN "True" ELSE "False"

\* play > to_beat: "True", "False", or the TypeError raised
Gt(play, to_beat) ==
    CASE play.type = "Single" -> Single_gt(play, to_beat)
      [] play.type = "Pair" -> Pair_gt(play, to_beat)
      [] play.type = "Triple" -> Triple_gt(play, to_beat)
      [] play.type = "Quad" -> Quad_gt(play, to_beat)
      [] play.type = "Straight" -> Straight_gt(play, to_beat)
      [] play.type = "SequentialPairs" -> SequentialPairs_gt(play, to_beat)

-----------------------------------------------------------------------------
(* Python list, deque and indexing helpers *)

Last(s) == s[Len(s)]
\* deque.pop(): drop the right end
Pop(s) == SubSeq(s, 1, Len(s) - 1)
\* deque.rotate(): the right end moves to the left end
Rotate(s) == IF Len(s) = 0 THEN s ELSE <<Last(s)>> \o Pop(s)
\* deque().extendleft(list): the list reversed
ExtendLeft(s) == [i \in 1..Len(s) |-> s[Len(s) + 1 - i]]
Elems(s) == {s[i] : i \in 1..Len(s)}
\* list.index(x), 1-based; 0 stands for the ValueError of a missing element
IndexOf(s, x) == IF x \in Elems(s) THEN CHOOSE i \in 1..Len(s) : s[i] = x ELSE 0
\* s[i:] + s[:i] for the 1-based position i of an element
From(s, i) == SubSeq(s, i, Len(s)) \o SubSeq(s, 1, i - 1)
\* s[i+1:] + s[:i] for the 1-based position i: the others, scanning forward
Others(s, i) == SubSeq(s, i + 1, Len(s)) \o SubSeq(s, 1, i - 1)
RemoveAt(s, i) == SubSeq(s, 1, i - 1) \o SubSeq(s, i + 1, Len(s))

\* for seat in seats: if len(seat.hand) == 0: seats.remove(seat)
\* The list iterator keeps a position; a removal shifts the rest left, so
\* the element that follows a removed one is not visited.
RECURSIVE PruneFrom(_, _, _)
PruneFrom(s, h, i) ==
    IF i > Len(s) THEN s
    ELSE IF h[s[i]] = {} THEN PruneFrom(RemoveAt(s, i), h, i + 1)
    ELSE PruneFrom(s, h, i + 1)
RemoveFinished(s, h) == PruneFrom(s, h, 1)

\* next(seat for seat in seats[i+1:] + seats[:i] if len(seat.hand) != 0);
\* 0 stands for StopIteration
NextWithCards(s, h, i) ==
    LET o == Others(s, i)
        ok == {k \in 1..Len(o) : h[o[k]] # {}}
    IN IF ok = {} THEN 0 ELSE o[CHOOSE k \in ok : \A j \in ok : k <= j]

-----------------------------------------------------------------------------
(* Input lines.  A line is "pass", a non-numeric line, or the set of the    *)
(* integers it lists (the set comprehension {sorted_hand[int(i)-1] ...}     *)
(* drops order and repeats).                                                *)

MaxLine == 4
MaxWrapHand == 2

Text(word) == [kind |-> word, pos |-> {}]
Numbers(pos) == [kind |-> "numbers", pos |-> pos]
Pass == Text("pass")
Junk == Text("junk")
\* the line "0" asks for sorted_hand[-1]
Zero == Numbers({0})
Lines == {Pass, Junk, Zero} \cup {Numbers(1..n) : n \in 0..MaxLine}

\* the lines a prompt over hand h is given: the positions 1..n of every hand,
\* the line "0" of hands of at most MaxWrapHand cards
Sendable(h, line) == line = Zero => Cardinality(h) <= MaxWrapHand

\* sorted_hand[int(i)-1] for every i of the line: the cards selected, or the
\* IndexError of a position outside the list (a negative index counts from
\* the end)
Selection(h, line) ==
    LET sorted_hand == SortedCards(h)
        n == Len(sorted_hand)
    IN IF \E i \in line.pos : i - 1 >= n \/ i - 1 < -n
       THEN [error |-> "IndexError", cards |-> {}]
       ELSE [error |-> None,
             cards |-> {sorted_hand[IF i - 1 >= 0 THEN i ELSE n + i] : i \in line.pos}]

\* a slip in difference_update: every card of a played rank is dropped
difference_update_ranks(h, cards) == {c \in h : c[1] \notin RanksOf(cards)}

\* seat.hand.difference_update(cards)
difference_update(h, cards) == h \ cards

\* a slip in the test below: nothing counts as not higher
NotHigher_never(play, to_beat) == FALSE

\* if not play > to_beat: "Combination must be higher than ..."
NotHigher(play, to_beat) == Gt(play, to_beat) = "False"

\* no play to beat (to_beat / winning_card is None), no required card
NoPlay == Comb(None, {})
NoCard == <<0, 0>>

Outcome(kind, why, play) == [kind |-> kind, why |-> why, play |-> play]

\* a slip in the guard below: a pass is taken with nothing to beat
PassAllowed_always(to_beat) == TRUE

\* "if to_beat and play_input[0].lower() == 'pass'" (main.py), "if
\* self.winning_card and line[0] == 'pass'" (server.py): a pass needs a
\* leading play
PassAllowed(to_beat) == to_beat # NoPlay

\* What a prompt does with a line, given the hand, the play to beat and the
\* required card: the seat passes, the line is rejected (and why), or the
\* combination is accepted.  print_and_get_card_selection (main.py) and the
\* body of Round.play (server.py) take the same decisions in the same order.
Decide(h, line, to_beat, required) ==
    IF line.kind # "numbers"
    THEN (IF PassAllowed(to_beat) /\ line = Pass
          THEN Outcome("pass", None, NoPlay)
          ELSE Outcome("reject", "numbers", NoPlay))
    ELSE LET sel == Selection(h, line) IN
         IF sel.error # None THEN Outcome("reject", "range", NoPlay)
         ELSE IF required # NoCard /\ required \notin sel.cards
         THEN Outcome("reject", "required", NoPlay)
         ELSE LET play == get_combination(sel.cards) IN
              IF play = Invalid THEN Outcome("reject", "combination", NoPlay)
              ELSE IF to_beat # NoPlay /\ Gt(play, to_beat) # "TypeError"
                      /\ NotHigher(play, to_beat)
              THEN Outcome("reject", "higher", NoPlay)
              ELSE IF to_beat # NoPlay /\ Gt(play, to_beat) = "TypeError"
              THEN Outcome("reject", "type", NoPlay)
              ELSE Outcome("accept", None, play)

-----------------------------------------------------------------------------
(* deck.py: deal_deck.  The hands below are what deal_deck(seed) returns    *)
(* for the seed named.                                                      *)

\* deal_deck(1)
Deal1 ==
    <<{<<4, 1>>, <<4, 3>>, <<4, 4>>, <<5, 1>>, <<6, 2>>, <<7, 1>>, <<9, 1>>, <<10, 1>>, <<10, 3>>, <<10, 4>>, <<12, 1>>, <<13, 2>>, <<15, 1>>},
       {<<3, 1>>, <<3, 2>>, <<3, 4>>, <<5, 3>>, <<6, 3>>, <<7, 2>>, <<7, 3>>, <<9, 4>>, <<11, 2>>, <<11, 3>>, <<13, 3>>, <<14, 1>>, <<14, 2>>},
       {<<6, 1>>, <<6, 4>>, <<8, 1>>, <<8, 2>>, <<8, 4>>, <<9, 2>>, <<9, 3>>, <<11, 1>>, <<12, 4>>, <<13, 1>>, <<14, 3>>, <<14, 4>>, <<15, 3>>},
       {<<3, 3>>, <<4, 2>>, <<5, 2>>, <<5, 4>>, <<7, 4>>, <<8, 3>>, <<10, 2>>, <<11, 4>>, <<12, 2>>, <<12, 3>>, <<13, 4>>, <<15, 2>>, <<15, 4>>}>>

\* deal_deck(1596)
Deal1596 ==
    <<{<<3, 2>>, <<4, 4>>, <<5, 2>>, <<5, 3>>, <<6, 3>>, <<7, 1>>, <<8, 2>>, <<9, 2>>, <<10, 4>>, <<11, 1>>, <<12, 1>>, <<13, 4>>, <<14, 1>>},
       {<<3, 4>>, <<4, 2>>, <<5, 1>>, <<5, 4>>, <<6, 1>>, <<6, 2>>, <<7, 2>>, <<8, 3>>, <<10, 1>>, <<11, 3>>, <<12, 3>>, <<15, 1>>, <<15, 2>>},
       {<<3, 1>>, <<4, 1>>, <<6, 4>>, <<7, 4>>, <<8, 1>>, <<9, 1>>, <<10, 3>>, <<12, 2>>, <<12, 4>>, <<13, 2>>, <<14, 3>>, <<14, 4>>, <<15, 4>>},
       {<<3, 3>>, <<4, 3>>, <<7, 3>>, <<8, 4>>, <<9, 3>>, <<9, 4>>, <<10, 2>>, <<11, 2>>, <<11, 4>>, <<13, 1>>, <<13, 3>>, <<14, 2>>, <<15, 3>>}>>

Deals == {Deal1, Deal1596}

-----------------------------------------------------------------------------
(* State *)

VARIABLES
    prog,           \* "main" (main.py) or "server" (server.py)
    players,        \* the players, in joining order (names 1..4)
    pc,             \* main.py: where start_game stands
    seats,          \* seats / Game.seats: list of the seats (seat i = player i)
    hand,           \* seat -> Seat.hand
    winners,        \* winners / Game.winners
    min_card,       \* min_card / Round.min_card
    first_round,    \* main.py: first_round
    round_order,    \* main.py: round_order (deque; its right end is on turn)
    play,           \* main.py: play, the last accepted play of the round
    current_lead,   \* main.py: current_lead
    tstate,         \* server.py: Table.state
    pstate,         \* server.py: player -> Player.state
    game,           \* server.py: Table.game is None, or a Game
    total_players,  \* server.py: Game.total_players
    round,          \* server.py: Game.round is None, or a Round
    ordered_seats,  \* server.py: Round.ordered_seats (deque; its right end is on turn)
    winning_card,   \* server.py: Round.winning_card
    winning_seat,   \* server.py: Round.winning_seat
    error,          \* server.py: the exception the last handler let escape, or None
    dealt,          \* history: seat -> the hand it was dealt in this match
    played,         \* history: the cards of all accepted plays of this match
    emptied,        \* history: the seats in the order their hands became empty
    r_cards,        \* rule.py: the cards handed to get_combination / has_instant_win
    r_to_beat,      \* rule.py: the combination on the right of play > to_beat
    combination,    \* rule.py: what get_combination(cards) returned or raised
    higher,         \* rule.py: what combination > to_beat returned or raised
    instant_win,    \* rule.py: what has_instant_win(cards) returned
    host,           \* server.py: Table.host (NoSeat for None)
    name,           \* server.py: connection -> Player.name (NoName for None)
    transport       \* server.py: connection -> "open", "closing" (loseConnection), "lost"

mainVars == <<pc, first_round, round_order, play, current_lead>>
gameVars == <<seats, hand, winners, min_card>>
histVars == <<dealt, played, emptied>>
tableVars == <<tstate, pstate, game, total_players, error>>
roundVars == <<round, ordered_seats, winning_card, winning_seat>>
serverVars == <<tableVars, roundVars>>
ruleVars == <<r_cards, r_to_beat, combination, higher, instant_win>>
lobbyVars == <<host, name, transport>>
vars == <<prog, players, mainVars, serverVars, gameVars, histVars, ruleVars, lobbyVars>>

NoSeat == 0

\* seats = [Seat(player, hand) for player, hand in zip(players, deal_deck())]
DealSeats(ps, deal) == [i \in 1..Len(ps) |-> deal[i]]

\* a slip in the loop below: the first seat is not looked at
InstantWinners_rest(sts, h) ==
    {i \in Elems(sts) \ {sts[1]} : has_instant_win(h[i]) # None}

\* the seats whose dealt hand is an instant win (instant_winners)
InstantWinners(sts, h) == {i \in Elems(sts) : has_instant_win(h[i]) # None}

\* the seat holding the lowest card of all hands, and that card
LowestCard(sts, h) == MinCard(UNION {h[i] : i \in Elems(sts)})
First(sts, h) == CHOOSE i \in 1..Len(sts) : LowestCard(sts, h) \in h[sts[i]]

-----------------------------------------------------------------------------
(* main.py: start_game.  The locals of start_game are gathered in a record *)
(* m; each operator runs the code from one point to the next prompt.       *)

MState ==
    [pc |-> pc, seats |-> seats, hand |-> hand, winners |-> winners,
     round_order |-> round_order, play |-> play, current_lead |-> current_lead,
     played |-> played, emptied |-> emptied]

\* history: seat has played cards out of its hand
Record(r, seat, cards) ==
    [r EXCEPT !.played = @ \cup cards,
              !.emptied = IF r.hand[seat] = {} THEN Append(@, seat) ELSE @]

Crash(m) == [m EXCEPT !.pc = "crash"]

\* lines 150-154: winners.append(seats[0]) and the placements
MFinish(m) ==
    IF Len(m.seats) = 0 THEN Crash(m)
    ELSE [m EXCEPT !.pc = "done", !.winners = Append(m.winners, m.seats[1])]

\* line 101: while len(winners) < len(seats) - 1, then the opening prompt
MLoop(m) ==
    IF Len(m.winners) < Len(m.seats) - 1
    THEN (IF Len(m.round_order) = 0 THEN Crash(m) ELSE [m EXCEPT !.pc = "open"])
    ELSE MFinish(m)

\* lines 143-148: the round is over and next_player opens the next one
MEndRound(m, next_player) ==
    LET pruned == RemoveFinished(m.seats, m.hand)
        index == IndexOf(pruned, next_player)
        m1 == [m EXCEPT !.round_order = Pop(m.round_order), !.seats = pruned]
    IN IF index = 0 THEN Crash(m1)
       ELSE MLoop([m1 EXCEPT !.round_order =
                       ExtendLeft(From(pruned, index)) \o m1.round_order])

\* lines 131-142, up to the prompt of the seat left in the round
MAfterInner(m) ==
    IF Len(m.round_order) = 0 THEN Crash(m)
    ELSE LET next_player == m.round_order[1] IN
         IF m.current_lead # next_player
         THEN (IF Len(m.winners) = Len(m.seats) - 1 THEN MFinish(m)
               ELSE [m EXCEPT !.pc = "pickup"])
         ELSE MEndRound(m, next_player)

\* line 117: while len(round_order) > 1
MInner(m) ==
    IF Len(m.round_order) > 1 THEN [m EXCEPT !.pc = "follow"] ELSE MAfterInner(m)

\* a seat that played: out of the round and into winners when its hand is
\* empty, else to the back of the rotation (lines 106-110, 126-130)
MPlayed(m, seat) ==
    IF m.hand[seat] = {}
    THEN [m EXCEPT !.winners = Append(m.winners, seat), !.round_order = Pop(m.round_order)]
    ELSE [m EXCEPT !.round_order = Rotate(m.round_order)]

MSet(m) ==
    /\ pc' = m.pc
    /\ seats' = m.seats
    /\ hand' = m.hand
    /\ winners' = m.winners
    /\ round_order' = m.round_order
    /\ play' = m.play
    /\ current_lead' = m.current_lead
    /\ played' = m.played
    /\ emptied' = m.emptied

\* lines 71-100: deal, instant wins, the seat with the lowest card
MainStart(deal) ==
    /\ prog = "main" /\ pc = "start"
    /\ LET sts == [i \in 1..Len(players) |-> i]
           h == DealSeats(players, deal)
       IN /\ seats' = sts
          /\ hand' = h
          /\ winners' = <<>>
          /\ dealt' = h
          /\ played' = {}
          /\ emptied' = <<>>
          /\ play' = NoPlay
          /\ current_lead' = NoSeat
          /\ IF InstantWinners(sts, h) # {}
             THEN /\ pc' = "instant"
                  /\ min_card' = NoCard
                  /\ first_round' = FALSE
                  /\ round_order' = <<>>
             ELSE /\ pc' = "open"
                  /\ min_card' = LowestCard(sts, h)
                  /\ first_round' = TRUE
                  /\ round_order' = ExtendLeft(From(sts, First(sts, h)))
    /\ UNCHANGED <<ruleVars, lobbyVars, prog, players, serverVars>>

\* lines 103-116: the opening play of a round
MainOpen(line) ==
    /\ prog = "main" /\ pc = "open"
    /\ Sendable(hand[Last(round_order)], line)
    /\ LET seat_turn == Last(round_order)
           d == Decide(hand[seat_turn], line, NoPlay,
                       IF first_round THEN min_card ELSE NoCard)
           m1 == Record([MState EXCEPT
                            !.hand[seat_turn] = difference_update(@, d.play.cards),
                            !.play = d.play,
                            !.current_lead = seat_turn],
                        seat_turn, d.play.cards)
       IN IF d.kind # "accept" THEN UNCHANGED vars
          ELSE /\ MSet(MInner(IF first_round
                              THEN [m1 EXCEPT !.round_order = Rotate(@)]
                              ELSE MPlayed(m1, seat_turn)))
               /\ first_round' = FALSE
               /\ UNCHANGED <<ruleVars, lobbyVars, prog, players, min_card, dealt, serverVars>>

\* lines 117-130: a turn against the leading play
MainFollow(line) ==
    /\ prog = "main" /\ pc = "follow"
    /\ Sendable(hand[Last(round_order)], line)
    /\ LET seat_turn == Last(round_order)
           d == Decide(hand[seat_turn], line, play, NoCard)
           m1 == Record([MState EXCEPT
                            !.hand[seat_turn] = difference_update(@, d.play.cards),
                            !.play = d.play,
                            !.current_lead = seat_turn],
                        seat_turn, d.play.cards)
       IN CASE d.kind = "reject" -> UNCHANGED vars
            [] d.kind = "pass" ->
                 /\ MSet(MInner([MState EXCEPT !.round_order = Pop(@)]))
                 /\ UNCHANGED <<ruleVars, lobbyVars, prog, players, min_card, first_round, dealt, serverVars>>
            [] d.kind = "accept" ->
                 /\ MSet(MInner(MPlayed(m1, seat_turn)))
                 /\ UNCHANGED <<ruleVars, lobbyVars, prog, players, min_card, first_round, dealt, serverVars>>

\* lines 131-142: the leader is done; the seat left in the round may beat
\* its play
MainPickup(line) ==
    /\ prog = "main" /\ pc = "pickup"
    /\ Sendable(hand[round_order[1]], line)
    /\ LET next_player == round_order[1]
           d == Decide(hand[next_player], line, play, NoCard)
           m1 == Record([MState EXCEPT
                            !.hand[next_player] = difference_update(@, d.play.cards),
                            !.play = d.play],
                        next_player, d.play.cards)
           i == IndexOf(seats, current_lead)
           other == IF i = 0 THEN NoSeat ELSE NextWithCards(seats, hand, i)
       IN CASE d.kind = "reject" -> UNCHANGED vars
            [] d.kind = "pass" ->
                 /\ MSet(IF other = NoSeat THEN Crash([MState EXCEPT !.play = NoPlay])
                         ELSE MEndRound([MState EXCEPT !.play = NoPlay], other))
                 /\ UNCHANGED <<ruleVars, lobbyVars, prog, players, min_card, first_round, dealt, serverVars>>
            [] d.kind = "accept" ->
                 /\ MSet(MEndRound(m1, next_player))
                 /\ UNCHANGED <<ruleVars, lobbyVars, prog, players, min_card, first_round, dealt, serverVars>>

\* lines 171-175: play again
MainAgain ==
    /\ prog = "main" /\ pc \in {"done", "instant"}
    /\ pc' = "start"
    /\ UNCHANGED <<ruleVars, lobbyVars, prog, players, first_round, round_order, play, current_lead,
                   gameVars, histVars, serverVars>>

-----------------------------------------------------------------------------
(* server.py: Table, Game, Round.  The fields a handler may change are     *)
(* gathered in a record g; ret is what Round.play returns (round_winner).  *)

GState ==
    [seats |-> seats, hand |-> hand, winners |-> winners, min_card |-> min_card,
     tstate |-> tstate, pstate |-> pstate, game |-> game, round |-> round,
     ordered_seats |-> ordered_seats, winning_card |-> winning_card,
     winning_seat |-> winning_seat, error |-> None, ret |-> NoSeat,
     played |-> played, emptied |-> emptied]

\* an exception leaves the handler: the state stays as the handler left it
Raise(g, exception) == [g EXCEPT !.error = exception]

\* a slip in the line below: the seat at the front of the rotation is asked
handle_next_player_front(g, seat) == [g EXCEPT !.pstate[g.ordered_seats[1]] = "GET_PLAY"]

\* Round.handle_next_player(seat)
handle_next_player(g, seat) == [g EXCEPT !.pstate[seat] = "GET_PLAY"]

\* a slip in the test below: the seat left in the round is always asked to
\* play
handle_special_case_asks(g) ==
    IF Len(g.ordered_seats) = 0 THEN Raise(g, "IndexError")
    ELSE handle_next_player(g, Last(g.ordered_seats))

\* Round.handle_special_case()
handle_special_case(g) ==
    IF Len(g.ordered_seats) = 0 THEN Raise(g, "IndexError")
    ELSE IF g.winning_seat # g.ordered_seats[1]
    THEN handle_next_player(g, Last(g.ordered_seats))
    ELSE [g EXCEPT !.ret = g.winning_seat]

\* Round.__init__(ordered_seats, game, min_card)
NewRound(g, ordered, required) ==
    LET os == ExtendLeft(ordered) IN
    [g EXCEPT !.round = "Round",
              !.ordered_seats = os,
              !.pstate = [p \in DOMAIN g.pstate |->
                             IF p = Last(os) THEN "GET_PLAY"
                             ELSE IF p \in Elems(os) THEN "PLAYING"
                             ELSE g.pstate[p]],
              !.min_card = required,
              !.winning_card = NoPlay,
              !.winning_seat = NoSeat]

\* a slip in the lines below: the required card stays required
ClearMinCard_kept(g) == g

\* Round.play, lines 302-303: if self.min_card: self.min_card = None
ClearMinCard(g) == [g EXCEPT !.min_card = NoCard]

\* Round.play, lines 276-284: the seat on turn passes
RoundPass(g, seat) ==
    LET g1 == [g EXCEPT !.pstate[seat] = "PLAYING",
                        !.ordered_seats = Pop(g.ordered_seats)]
    IN IF Len(g1.ordered_seats) = 1 THEN handle_special_case(g1)
       ELSE IF Len(g1.ordered_seats) = 0 THEN [g1 EXCEPT !.ret = g1.winning_seat]
       ELSE handle_next_player(g1, Last(g1.ordered_seats))

\* Round.play, lines 315-327: the play is accepted
RoundAccept(g, seat, accepted) ==
    LET g1 == Record([g EXCEPT !.hand[seat] = difference_update(@, accepted.cards),
                               !.winning_seat = seat,
                               !.winning_card = accepted,
                               !.pstate[seat] = "PLAYING"],
                     seat, accepted.cards)
        g2 == IF g1.hand[seat] = {}
              THEN [g1 EXCEPT !.winners = Append(g1.winners, seat),
                              !.ordered_seats = Pop(g1.ordered_seats)]
              ELSE [g1 EXCEPT !.ordered_seats = Rotate(g1.ordered_seats)]
    IN IF Len(g2.ordered_seats) <= 1 THEN handle_special_case(g2)
       ELSE handle_next_player(g2, Last(g2.ordered_seats))

\* Round.play(player, line); the player of seat i is player i
RoundPlay(g, player, line) ==
    IF Len(g.ordered_seats) = 0 THEN Raise(g, "IndexError")
    ELSE IF player # Last(g.ordered_seats) THEN Raise(g, "ValueError")
    ELSE LET d == Decide(g.hand[player], line, g.winning_card, g.min_card) IN
         CASE d.kind = "pass" -> RoundPass(g, player)
           [] d.kind = "accept" -> RoundAccept(ClearMinCard(g), player, d.play)
           \* player.sendLine(str(e).encode): the bound method, not bytes
           [] d.kind = "reject" /\ d.why = "combination" -> Raise(g, "TypeError")
           \* rejected after the combination was built
           [] d.kind = "reject" /\ d.why \in {"higher", "type"} -> ClearMinCard(g)
           [] OTHER -> g

\* Table.reset(): the Game and its Round are dropped with self.game = None
\* (seats, hand and winners keep the values of the ranking just announced)
TableReset(g) ==
    [g EXCEPT !.pstate = [p \in DOMAIN g.pstate |->
                             IF p \in Elems(players) THEN "LOBBY" ELSE g.pstate[p]],
              !.tstate = "LOBBY",
              !.game = None,
              !.round = None,
              !.ordered_seats = <<>>,
              !.winning_card = NoPlay,
              !.winning_seat = NoSeat]

\* next(seat for seat in self.seats if seat not in self.winners); 0 stands
\* for StopIteration
FirstNotIn(s, w) ==
    LET ok == {k \in 1..Len(s) : s[k] \notin Elems(w)}
    IN IF ok = {} THEN NoSeat ELSE s[CHOOSE k \in ok : \A j \in ok : k <= j]

\* Game.play after self.round.play returned, lines 219-234, and Table.play,
\* lines 175-177
GamePlay(g) ==
    IF g.error # None THEN g
    ELSE IF Len(g.winners) >= total_players - 1
    THEN LET last == FirstNotIn(g.seats, g.winners) IN
         IF last = NoSeat THEN Raise(g, "StopIteration")
         ELSE TableReset([g EXCEPT !.winners = Append(g.winners, last)])
    ELSE IF g.ret # NoSeat
    THEN LET i == IndexOf(g.seats, g.ret)
             round_winner == IF g.hand[g.ret] # {} THEN g.ret
                             ELSE IF i = 0 THEN NoSeat
                             ELSE NextWithCards(g.seats, g.hand, i)
             pruned == RemoveFinished(g.seats, g.hand)
             index == IndexOf(pruned, round_winner)
         IN IF g.hand[g.ret] = {} /\ i = 0 THEN Raise(g, "ValueError")
            ELSE IF round_winner = NoSeat THEN Raise(g, "StopIteration")
            ELSE IF index = 0 THEN Raise([g EXCEPT !.seats = pruned], "ValueError")
            ELSE NewRound([g EXCEPT !.seats = pruned], From(pruned, index), NoCard)
    ELSE g

GSet(g) ==
    /\ seats' = g.seats
    /\ hand' = g.hand
    /\ winners' = g.winners
    /\ min_card' = g.min_card
    /\ tstate' = g.tstate
    /\ pstate' = g.pstate
    /\ game' = g.game
    /\ round' = g.round
    /\ ordered_seats' = g.ordered_seats
    /\ winning_card' = g.winning_card
    /\ winning_seat' = g.winning_seat
    /\ error' = g.error
    /\ played' = g.played
    /\ emptied' = g.emptied

\* Player.handle_LOBBY: "ready"
ServerReady(p) ==
    /\ prog = "server" /\ pstate[p] = "LOBBY" /\ p # host
    /\ pstate' = [pstate EXCEPT ![p] = "READY"]
    /\ error' = None
    /\ UNCHANGED <<ruleVars, lobbyVars, prog, players, mainVars, gameVars, histVars, roundVars,
                   tstate, game, total_players>>

\* Player.handle_READY: "unready"
ServerUnready(p) ==
    /\ prog = "server" /\ pstate[p] = "READY"
    /\ pstate' = [pstate EXCEPT ![p] = "LOBBY"]
    /\ error' = None
    /\ UNCHANGED <<ruleVars, lobbyVars, prog, players, mainVars, gameVars, histVars, roundVars,
                   tstate, game, total_players>>

\* Player.handle_LOBBY: the host's "start" with nobody unready, Table.start,
\* Game.__init__, Game.instant_win_phase and Game.start
TableStart(deal) ==
    /\ prog = "server" /\ pstate[host] = "LOBBY"
    /\ \A p \in Elems(players) : p = host \/ pstate[p] = "READY"
    /\ IF tstate = "STARTED"
       THEN /\ error' = "RuntimeError"
            /\ UNCHANGED <<ruleVars, lobbyVars, prog, players, mainVars, gameVars, histVars, roundVars,
                           tstate, pstate, game, total_players>>
       ELSE LET sts == [i \in 1..Len(players) |-> i]
                h == DealSeats(players, deal)
                g0 == [GState EXCEPT !.tstate = "STARTED", !.game = "Game",
                                     !.seats = sts, !.hand = h, !.winners = <<>>,
                                     !.played = {}, !.emptied = <<>>]
            IN /\ dealt' = h
               /\ IF InstantWinners(sts, h) # {}
                  \* line 168: self.seats, and a Table has no seats
                  THEN /\ GSet(Raise(g0, "AttributeError"))
                       /\ UNCHANGED total_players
                  ELSE /\ GSet(NewRound(g0, From(sts, First(sts, h)), LowestCard(sts, h)))
                       /\ total_players' = Len(sts)
               /\ UNCHANGED <<ruleVars, lobbyVars, prog, players, mainVars>>

\* Player.lineReceived in state GET_PLAY: Table.play, Game.play, Round.play
ServerPlay(p, line) ==
    /\ prog = "server" /\ pstate[p] = "GET_PLAY"
    /\ Sendable(hand[p], line)
    /\ GSet(GamePlay(RoundPlay(GState, p, line)))
    /\ UNCHANGED <<ruleVars, lobbyVars, prog, players, mainVars, total_players, dealt>>

\* the line of a player in state PLAYING is taken as the play of the seat
\* on turn
ServerWait_plays(p) ==
    /\ prog = "server" /\ pstate[p] = "PLAYING"
    /\ IF round = None \/ Len(ordered_seats) = 0
       THEN /\ error' = None
            /\ UNCHANGED <<gameVars, played, emptied, roundVars, tstate, pstate, game>>
       ELSE \E line \in Lines :
               GSet(GamePlay(RoundPlay(GState, Last(ordered_seats), line)))
    /\ UNCHANGED <<ruleVars, lobbyVars, prog, players, mainVars, total_players, dealt>>

\* Player.lineReceived in state PLAYING: whatever the line (but 'exit'), 'Not
\* your turn yet. Waiting on other player...' is sent and nothing else happens
ServerWait(p) ==
    /\ prog = "server" /\ pstate[p] = "PLAYING"
    /\ error' = None
    /\ UNCHANGED <<ruleVars, lobbyVars, prog, players, mainVars, gameVars, histVars, roundVars,
                   tstate, pstate, game, total_players>>

NumPlayers == 2..4

\* the table, game and round variables before any match is started
TableInit ==
    /\ pc = "start"
    /\ seats = <<>>
    /\ hand = <<>>
    /\ winners = <<>>
    /\ min_card = NoCard
    /\ first_round = FALSE
    /\ round_order = <<>>
    /\ play = NoPlay
    /\ current_lead = NoSeat
    /\ dealt = <<>>
    /\ played = {}
    /\ emptied = <<>>
    /\ tstate = "LOBBY"
    /\ pstate = [p \in 1..Len(players) |-> "LOBBY"]
    /\ game = None
    /\ total_players = 0
    /\ round = None
    /\ ordered_seats = <<>>
    /\ winning_card = NoPlay
    /\ winning_seat = NoSeat
    /\ error = None

\* a function of rule.py that has not been called yet
NotRun == "NotRun"
NoComb == Comb(NotRun, {})

Init ==
    /\ prog \in {"main", "server"}
    /\ players \in {[i \in 1..n |-> i] : n \in NumPlayers}
    /\ TableInit
    \* the first player to join is the host; player i has the name i
    /\ host = players[1]
    /\ name = players
    /\ transport = [p \in 1..Len(players) |-> "open"]
    /\ r_cards = {}
    /\ r_to_beat = NoPlay
    /\ combination = NoComb
    /\ higher = NotRun
    /\ instant_win = NotRun

Next ==
    \/ \E deal \in Deals : MainStart(deal)
    \/ \E line \in Lines : MainOpen(line)
    \/ \E line \in Lines : MainFollow(line)
    \/ \E line \in Lines : MainPickup(line)
    \/ MainAgain
    \/ \E p \in Elems(players) : ServerReady(p)
    \/ \E p \in Elems(players) : ServerUnready(p)
    \/ \E deal \in Deals : TableStart(deal)
    \/ \E p \in Elems(players), line \in Lines : ServerPlay(p, line)
    \/ \E p \in Elems(players) : ServerWait(p)

Spec == Init /\ [][Next]_vars

-----------------------------------------------------------------------------
(* rule.py called on its own: get_combination(cards), the comparison       *)
(* combination > to_beat and has_instant_win(cards), for selections and    *)
(* hands drawn from bounded sets.                                          *)

MaxSel == 6
MaxLead == 4

\* The cards selections are drawn from: ten and jack of spades, queen and
\* king of spades and hearts, the four aces and the four twos.
RuleDeck ==
    {Card(r, SPADES) : r \in 10..11}
        \cup {Card(r, s) : r \in 12..13, s \in {SPADES, HEARTS}}
        \cup {Card(r, s) : r \in 14..TWO, s \in Suit}
Selections == {s \in SUBSET RuleDeck : Cardinality(s) <= MaxSel}

\* and the one to four cards of one rank in the first suits, for every rank
SameRankSets == {{Card(r, s) : s \in 1..k} : r \in Rank, k \in 1..4}

\* The hands has_instant_win is also called on: the ranks 3..3+width-1 in
\* the first k suits each, with the first j twos.
BlockHand(width, k, j) ==
    {Card(r, s) : r \in THREE..(THREE + width - 1), s \in 1..k}
        \cup {Card(TWO, s) : s \in 1..j}
Hands == {BlockHand(width, k, j) : width \in 0..12, k \in 1..4, j \in 0..4}

\* the hands of a deal: the 13-card hands out of the threes, fours, fives and
\* twos (all but three of these sixteen cards), and the hands of Deals
QuadDeck == {Card(r, s) : r \in {THREE, THREE + 1, THREE + 2, TWO}, s \in Suit}
FullHands == {QuadDeck \ out : out \in {o \in SUBSET QuadDeck : Cardinality(o) = 3}}
DealtHands == {deal[i] : deal \in Deals, i \in 1..4}

\* The plays to beat: the combinations that can be built from the twos and
\* the ten to king of spades.
LeadDeck == FOUR_TWOS \cup {Card(r, SPADES) : r \in 10..13}
Leads ==
    {get_combination(s) :
        s \in {t \in SUBSET LeadDeck : Cardinality(t) \in 1..MaxLead}} \ {Invalid}

RuleInit ==
    /\ prog = "rule"
    /\ players = <<>>
    /\ TableInit
    /\ host = NoSeat
    /\ name = <<>>
    /\ transport = <<>>
    /\ \/ r_cards \in Selections \cup SameRankSets /\ r_to_beat \in Leads
       \/ r_cards \in Hands \cup FullHands \cup DealtHands /\ r_to_beat = NoPlay
    /\ combination = NoComb
    /\ higher = NotRun
    /\ instant_win = NotRun

\* play = rule.get_combination(cards)
RuleCombination ==
    /\ prog = "rule" /\ combination = NoComb
    /\ combination' = get_combination(r_cards)
    /\ UNCHANGED <<lobbyVars, prog, players, mainVars, serverVars, gameVars, histVars,
                   r_cards, r_to_beat, higher, instant_win>>

\* if to_beat: ... play > to_beat
RuleCompare ==
    /\ prog = "rule" /\ higher = NotRun
    /\ combination \notin {NoComb, Invalid} /\ r_to_beat # NoPlay
    /\ higher' = Gt(combination, r_to_beat)
    /\ UNCHANGED <<lobbyVars, prog, players, mainVars, serverVars, gameVars, histVars,
                   r_cards, r_to_beat, combination, instant_win>>

\* instant_win = rule.has_instant_win(seat.hand)
RuleInstantWin ==
    /\ prog = "rule" /\ instant_win = NotRun
    /\ instant_win' = has_instant_win(r_cards)
    /\ UNCHANGED <<lobbyVars, prog, players, mainVars, serverVars, gameVars, histVars,
                   r_cards, r_to_beat, combination, higher>>

RuleNext == RuleCombination \/ RuleCompare \/ RuleInstantWin

RuleSpec == RuleInit /\ [][RuleNext]_vars

-----------------------------------------------------------------------------
(* Vocabulary of the properties *)

Seats == 1..Len(players)
MainRunning == prog = "main" /\ pc \in {"open", "follow", "pickup"}
ServerRunning == prog = "server" /\ tstate = "STARTED" /\ round # None
Running == MainRunning \/ ServerRunning

\* the rotation of the current round, and the play to beat
Rotation == IF prog = "main" THEN round_order ELSE ordered_seats
Leading == IF prog = "main" THEN (IF pc = "open" THEN NoPlay ELSE play) ELSE winning_card
\* the card a play must contain now
Required == IF prog = "main" THEN (IF first_round THEN min_card ELSE NoCard) ELSE min_card
\* the seats that are asked for a line now
OnTurn ==
    IF prog = "main"
    THEN (IF MainRunning /\ Len(round_order) > 0 THEN {Last(round_order)} ELSE {})
    ELSE {p \in Seats : pstate[p] = "GET_PLAY"}

Holding == {i \in DOMAIN hand : hand[i] # {}}
AllHands == UNION {hand[i] : i \in DOMAIN hand}
AllDealt == UNION {dealt[i] : i \in DOMAIN dealt}
InstantWinDealt == \E i \in DOMAIN dealt : has_instant_win(dealt[i]) # None

NoRepeats(s) == \A i, j \in 1..Len(s) : i # j => s[i] # s[j]

(* C1: at every point of a match the hands are pairwise disjoint, no card  *)
(* of an accepted play is still in a hand, and the hands together with the *)
(* cards of all accepted plays are exactly the cards dealt.                *)
C1_CardsConserved ==
    /\ \A i, j \in DOMAIN hand : i # j => hand[i] \cap hand[j] = {}
    /\ AllHands \cap played = {}
    /\ AllHands \cup played = AllDealt

C1_Witness ==
    /\ Running
    /\ Len(emptied) > 0
    /\ Cardinality(Holding) >= 2

(* C2: a running server match without instant win is never stuck: some     *)
(* seat is asked for a line and is the seat Round.play accepts lines from. *)
C2_NeverStuck ==
    ServerRunning =>
        \E p \in Seats :
            /\ pstate[p] = "GET_PLAY"
            /\ Len(ordered_seats) > 0
            /\ p = Last(ordered_seats)

(* C3: start_game leaves its loop and prints the placements only when at   *)
(* most one seat still holds cards.                                        *)
C3_EndsWithOneHolder ==
    (prog = "main" /\ pc = "done") => Cardinality(Holding) <= 1

(* C4: the placements start_game prints name each of the K seats exactly   *)
(* once: the seats in the order they emptied their hands, then the one     *)
(* seat still holding cards.                                               *)
C4_FullRanking ==
    (prog = "main" /\ pc = "done") =>
        /\ Len(winners) = Len(players)
        /\ NoRepeats(winners)
        /\ Elems(winners) = Seats
        /\ SubSeq(winners, 1, Len(winners) - 1) = emptied
        /\ hand[Last(winners)] # {}

(* C5: a seat whose hand is empty is not in the rotation of the running    *)
(* round and is not the seat on turn.                                      *)
C5_FinishedStayOut ==
    Running =>
        \A i \in DOMAIN hand :
            hand[i] = {} => i \notin Elems(Rotation) /\ i \notin OnTurn

\* the selection of a numeric line out of a hand, when every position is in
\* range
Selected(h, line) == Selection(h, line).cards
InRange(h, line) == line.kind = "numbers" /\ Selection(h, line).error = None

\* A line the seat on turn `seat` may send that must be rejected: its
\* selection forms no combination, omits the required card, or forms a
\* combination that does not compare higher than the leading play.
MustReject(seat, line) ==
    /\ InRange(hand[seat], line)
    /\ LET cards == Selected(hand[seat], line) IN
       \/ get_combination(cards) = Invalid
       \/ Required # NoCard /\ Required \notin cards
       \/ /\ get_combination(cards) # Invalid
          /\ Leading # NoPlay
          /\ Gt(get_combination(cards), Leading) # "True"

(* C6: a rejected submission changes nothing: hands, leading play and      *)
(* leader, rotation, ranking, seat list and the seat on turn stay as they  *)
(* were.                                                                   *)
C6_RejectionChangesNothing ==
    [][\/ UNCHANGED <<hand, seats, winners, min_card, first_round, pc,
                      round_order, play, current_lead, tstate, pstate, round,
                      ordered_seats, winning_card, winning_seat, played, emptied>>
       \/ ~Running
       \/ \A seat \in OnTurn, line \in Lines :
             ~ /\ \/ MainOpen(line) \/ MainFollow(line) \/ MainPickup(line)
                  \/ ServerPlay(seat, line)
               /\ MustReject(seat, line)
      ]_vars

\* a rejection has just been handled (the server's handler let the
\* TypeError of its message escape) against a leading play, and the seat on
\* turn holds a valid combination that is not high enough
C6_Witness ==
    /\ ServerRunning
    /\ error = "TypeError"
    /\ winning_card # NoPlay
    /\ \E seat \in OnTurn, line \in Lines :
          /\ MustReject(seat, line)
          /\ get_combination(Selected(hand[seat], line)) # Invalid

\* compare(a, b) = Higher: the same shape and size with a greater key, or a
\* bomb override
SameShape(a, b) == a.type = b.type /\ Cardinality(a.cards) = Cardinality(b.cards)
KeyGreater(a, b) ==
    IF a.type \in {"Triple", "Quad"} THEN RankOf(a) > RankOf(b)
    ELSE CardLT(MaxCard(b.cards), MaxCard(a.cards))
HoldsTwo(b) == \E c \in b.cards : c[1] = TWO
Bomb(a, b) ==
    \/ a.type = "Quad" /\ b.type \in {"Single", "Pair"} /\ HoldsTwo(b)
    \/ a.type = "SequentialPairs" /\ b.type = "Single" /\ HoldsTwo(b)
    \/ a.type = "SequentialPairs" /\ Cardinality(a.cards) > 6
       /\ b.type = "Pair" /\ HoldsTwo(b)
    \/ a.type = "SequentialPairs" /\ Cardinality(a.cards) > 8
       /\ b.type = "Triple" /\ HoldsTwo(b)
Higher(a, b) == (SameShape(a, b) /\ KeyGreater(a, b)) \/ Bomb(a, b)

(* C7: while a round has a leading play, the cards that leave a hand in a  *)
(* step form a play that compares Higher than that leading play.           *)
C7_OnlyHigherAccepted ==
    [][(Running /\ Leading # NoPlay /\ played' # played)
          => Higher(get_combination(played' \ played), Leading)]_vars

C9_InstantWinEndsMatch ==
    InstantWinDealt =>
        /\ hand = dealt
        /\ played = {}
        /\ OnTurn = {}
        /\ prog = "main" => pc \in {"instant", "start"} /\ round_order = <<>>
        /\ prog = "server" => round = None /\ ordered_seats = <<>>

C9_Witness ==
    /\ InstantWinDealt
    /\ \/ prog = "main" /\ pc = "instant"
       \/ prog = "server" /\ game # None

(* C10: once Table.start has dealt an instant win the table is reset: it   *)
(* is in the LOBBY state, has no game, and no player is left in a state of *)
(* play.                                                                   *)
C10_ResetAfterInstantWin ==
    (prog = "server" /\ InstantWinDealt) =>
        /\ tstate = "LOBBY"
        /\ game = None
        /\ \A p \in Seats : pstate[p] \in {"LOBBY", "READY"}

(* C11: a seat is appended to the ranking in the very step in which its    *)
(* last cards are accepted, whichever prompt accepted them: it is the      *)
(* entry that follows the seats ranked before (the step that ends the      *)
(* match appends the last seat after it).                                  *)
C11_FinishersRanked ==
    [][\A i \in DOMAIN hand :
          (i \in DOMAIN hand' /\ hand[i] # {} /\ hand'[i] = {}) =>
              /\ Len(winners') > Len(winners)
              /\ SubSeq(winners', 1, Len(winners)) = winners
              /\ winners'[Len(winners) + 1] = i
      ]_vars

(* C12: in a 2-seat match, once a seat X has emptied its hand the match    *)
(* is over: the ranking is X then the other seat Y, nobody is on turn, and *)
(* no round is left running.                                               *)
C12_TwoSeatsEnd ==
    (Len(players) = 2 /\ Len(emptied) > 0) =>
        LET X == emptied[1]
            Y == CHOOSE s \in Seats : s # X
        IN /\ winners = <<X, Y>>
           /\ OnTurn = {}
           /\ prog = "main" => pc \in {"done", "start"}
           /\ prog = "server" => tstate = "LOBBY" /\ game = None /\ round = None

(* C13: two plays of the same shape but different card counts (Straights   *)
(* or SequentialPairs of different lengths) are incomparable: the          *)
(* comparison raises TypeError ("wrong round type") whatever the highest   *)
(* cards are.                                                              *)
C13_LengthsIncomparable ==
    (/\ higher # NotRun
     /\ combination.type \in {"Straight", "SequentialPairs"}
     /\ r_to_beat.type = combination.type
     /\ Cardinality(combination.cards) # Cardinality(r_to_beat.cards)) =>
        higher = "TypeError"

(* C14: a Quad of any rank compares higher than a Single two: the          *)
(* comparison returns True and the prompt accepts the Quad against the     *)
(* leading single two.                                                     *)
C14_QuadBeatsSingleTwo ==
    (/\ higher # NotRun
     /\ combination.type = "Quad"
     /\ r_to_beat.type = "Single" /\ RankOf(r_to_beat) = TWO) =>
        /\ higher = "True"
        /\ Decide(r_cards, Numbers(1..4), r_to_beat, NoCard).kind = "accept"

C14_Witness ==
    /\ higher = "True"
    /\ combination.type = "Quad" /\ RankOf(combination) = THREE
    /\ r_to_beat.type = "Single" /\ RankOf(r_to_beat) = TWO

(* C15: a Quad of any rank compares higher than a Pair of twos: the        *)
(* comparison returns True and the prompt accepts the Quad against the     *)
(* leading pair of twos.                                                   *)
C15_QuadBeatsPairOfTwos ==
    (/\ higher # NotRun
     /\ combination.type = "Quad"
     /\ r_to_beat.type = "Pair" /\ RankOf(r_to_beat) = TWO) =>
        /\ higher = "True"
        /\ Decide(r_cards, Numbers(1..4), r_to_beat, NoCard).kind = "accept"

\* n/2 pairs of one rank each, the ranks consecutive without gaps, no two
SeqPairsShape(cs) ==
    /\ Cardinality(cs) >= 6 /\ Cardinality(cs) % 2 = 0
    /\ TWO \notin RanksOf(cs)
    /\ \A r \in RanksOf(cs) : Cardinality({c \in cs : c[1] = r}) = 2
    /\ \A r \in Rank :
          (\E a, b \in RanksOf(cs) : a <= r /\ r <= b) => r \in RanksOf(cs)

(* C16: every selection of an even number n >= 6 of cards made of n/2      *)
(* pairs of consecutive ranks, none of them a two (such as 3-3-4-4-5-5),   *)
(* is classified by get_combination as SequentialPairs.                    *)
C16_SequentialPairsClassified ==
    (combination # NoComb /\ SeqPairsShape(r_cards)) =>
        combination.type = "SequentialPairs"

\* the leading plays a SequentialPairs of n cards overrides: a single two,
\* a pair of twos when n > 6, a triple of twos when n > 8
BombTarget(n, lead) ==
    /\ lead.type \in {"Single", "Pair", "Triple"}
    /\ RanksOf(lead.cards) = {TWO}
    /\ lead.type = "Pair" => n > 6
    /\ lead.type = "Triple" => n > 8

(* C17: a SequentialPairs play compares higher than a Single two, than a   *)
(* Pair of twos when it has more than 6 cards and than a Triple of twos    *)
(* when it has more than 8 cards, so it is accepted against that leading   *)
(* play.                                                                   *)
C17_SequentialPairsBombs ==
    (/\ combination # NoComb
     /\ SeqPairsShape(r_cards)
     /\ BombTarget(Cardinality(r_cards), r_to_beat)) =>
        /\ combination.type = "SequentialPairs"
        /\ Gt(combination, r_to_beat) = "True"
        /\ Decide(r_cards, Numbers(1..Cardinality(r_cards)), r_to_beat, NoCard).kind
               = "accept"

\* the cards form a run: as many distinct ranks as cards, the ranks
\* consecutive, none of them a two
FormsStraight(cs) ==
    /\ Cardinality(RanksOf(cs)) = Cardinality(cs)
    /\ \A a, b \in RanksOf(cs) : b - a < Cardinality(cs)
    /\ TWO \notin RanksOf(cs)
OneRank(cs) == Cardinality(RanksOf(cs)) = 1

\* the size table for selections of 0 to 4 cards
SizeTable(cs) ==
    LET n == Cardinality(cs) IN
    CASE n = 0 -> "ValueError"
      [] n = 1 -> "Single"
      [] n = 2 -> IF OneRank(cs) THEN "Pair" ELSE "ValueError"
      [] n = 3 -> IF FormsStraight(cs) THEN "Straight"
                  ELSE IF OneRank(cs) THEN "Triple" ELSE "ValueError"
      [] n = 4 -> IF FormsStraight(cs) THEN "Straight"
                  ELSE IF OneRank(cs) THEN "Quad" ELSE "ValueError"

(* C18: for a selection of 0 to 4 cards get_combination follows the size   *)
(* table: nothing for 0 cards, a Single for 1, a Pair for 2 of one rank, a *)
(* Straight or else a Triple for 3, a Straight or else a Quad for 4, and a *)
(* ValueError otherwise; the combination holds exactly the cards selected. *)
C18_SizeTable ==
    (combination # NoComb /\ Cardinality(r_cards) <= 4) =>
        /\ combination.type = SizeTable(r_cards)
        /\ combination # Invalid => combination.cards = r_cards

C18_Witness ==
    /\ Cardinality(r_cards) = 3
    /\ combination.type = "Triple"

(* C19: a selection of n >= 3 cards is classified as a Straight exactly    *)
(* when its ranks are n distinct consecutive ranks without a two; a run    *)
(* ending ace-two or holding two cards of one rank is not a Straight.      *)
C19_StraightIff ==
    (combination # NoComb /\ Cardinality(r_cards) >= 3) =>
        (combination.type = "Straight" <=> FormsStraight(r_cards))

C19_Witness ==
    /\ Cardinality(r_cards) = 5
    /\ combination.type = "Straight"
    /\ MaxCard(r_cards)[1] = 14

\* the number of pairs in a set of cards: a rank with 2 or 3 cards gives
\* one, a rank with 4 cards gives two
PairCount(cs) ==
    Cardinality({rk \in Rank \X {1, 2} :
                    Cardinality({c \in cs : c[1] = rk[1]}) >= 2 * rk[2]})

\* the instant-win patterns in their fixed order
InstantWinTable(cs) ==
    IF \A r \in Rank \ {TWO} : \E c \in cs : c[1] = r THEN "dragon sequence"
    ELSE IF \A s \in Suit : Card(TWO, s) \in cs THEN "four twos"
    ELSE IF Cardinality(RanksOf(cs)) = 3 THEN "three quads"
    ELSE IF Cardinality(RanksOf(cs)) = 4 THEN "four triples"
    ELSE IF PairCount(cs) = 6 THEN "six pairs"
    ELSE None

(* C20: has_instant_win returns the first pattern that matches in the      *)
(* order dragon sequence, four twos, exactly 3 distinct ranks, exactly 4   *)
(* distinct ranks, six pairs, and None when none matches; the 3- and       *)
(* 4-rank rules count distinct ranks only, whatever the group sizes.       *)
C20_InstantWinOrder ==
    instant_win # NotRun => instant_win = InstantWinTable(r_cards)

\* a 13-card hand of 4 ranks (4 + 4 + 4 + 1 cards) that also holds six
\* pairs is reported as four triples
C20_Witness ==
    /\ instant_win = "four triples"
    /\ Cardinality(r_cards) = 13
    /\ PairCount(r_cards) = 6

(* C21: a pass submitted while the round has no leading play (an opening,  *)
(* the first turn of the match included) is rejected: the seat stays on    *)
(* turn and in the rotation, and hands, rotation and ranking are           *)
(* unchanged.                                                              *)
C21_PassNeedsLead ==
    [][\/ UNCHANGED <<hand, seats, winners, min_card, first_round, pc,
                      round_order, play, current_lead, tstate, pstate, round,
                      ordered_seats, winning_card, winning_seat, played, emptied>>
       \/ \A seat \in OnTurn :
             ~ /\ Running
               /\ Leading = NoPlay
               /\ \/ MainOpen(Pass) \/ MainFollow(Pass) \/ MainPickup(Pass)
                  \/ ServerPlay(seat, Pass)
      ]_vars

\* a later round of a server match is being opened: cards have been played,
\* nothing leads, and the pass of the seat on turn is answered with a
\* rejection that leaves this very state
C21_Witness ==
    /\ ServerRunning
    /\ winning_card = NoPlay
    /\ played # {}
    /\ error = None
    /\ \E seat \in OnTurn :
          /\ seat = Last(ordered_seats)
          /\ Decide(hand[seat], Pass, Leading, Required).kind = "reject"
          /\ RoundPlay(GState, seat, Pass) = GState

(* C22: in the network server, a line received from any player other than *)
(* the seat currently on turn never changes match state: no hand, leading *)
(* play, rotation, ranking or player's state is modified by it, at any     *)
(* point of a running match.                                               *)
C22_OffTurnLineIgnored ==
    [][\/ UNCHANGED <<hand, seats, winners, min_card, tstate, pstate, game,
                      total_players, round, ordered_seats, winning_card,
                      winning_seat, played, emptied>>
       \/ \A p \in Seats, line \in Lines :
             ~ /\ ServerRunning
               /\ Len(ordered_seats) = 0 \/ p # Last(ordered_seats)
               /\ ServerWait(p) \/ ServerPlay(p, line)
      ]_vars

\* a running server match with a leading play and a seat that is not on
\* turn, holds a combination that would be accepted from the seat on turn,
\* and whose line has been answered with 'Not your turn yet'
C22_Witness ==
    /\ ServerRunning
    /\ winning_card # NoPlay
    /\ error = None
    /\ \E p \in Seats, line \in Lines :
          /\ p # Last(ordered_seats)
          /\ pstate[p] = "PLAYING"
          /\ p \in Elems(ordered_seats)
          /\ Decide(hand[p], line, winning_card, min_card).kind = "accept"

\* a step in which the seat on turn passes against a leading play
PassStep(seat) ==
    /\ Running /\ Leading # NoPlay
    /\ \/ MainFollow(Pass) \/ MainPickup(Pass)
       \/ ServerPlay(seat, Pass)

\* the match is still running after the step, and its rotation then
RunningNext ==
    IF prog = "main" THEN pc' \in {"open", "follow", "pickup"}
    ELSE tstate' = "STARTED" /\ round' # None
RotationNext == IF prog = "main" THEN round_order' ELSE ordered_seats'

\* the step closes the round and builds the rotation of the next one
NewRoundStep ==
    IF prog = "main" THEN pc # "open" /\ pc' = "open"
    ELSE /\ tstate' = "STARTED" /\ round' # None /\ winning_card' = NoPlay
         /\ winning_card # NoPlay \/ round = None

(* C23: a seat that passes is removed from the current round's rotation    *)
(* and receives no further turn in that round, but it keeps its hand       *)
(* unchanged and is again a member of the next round's rotation.  While    *)
(* the match runs: a pass leaves every hand as it was, and the passer is   *)
(* out of the rotation after it, unless the pass closed the round and the  *)
(* passer is in the rotation of the new round; only a seat of the rotation *)
(* is on turn, and a seat outside the rotation enters it only when a new   *)
(* round is built; the rotation of a new round holds every seat that has   *)
(* cards.                                                                  *)
C23_PasserSitsOutRound ==
    [][/\ \A seat \in OnTurn : PassStep(seat) =>
             /\ UNCHANGED <<hand, played, emptied>>
             /\ RunningNext =>
                   IF NewRoundStep THEN seat \in Elems(RotationNext)
                   ELSE seat \notin Elems(RotationNext)
       /\ Running => OnTurn \subseteq Elems(Rotation)
       /\ (Running /\ RunningNext) =>
             /\ \A s \in Seats :
                   (s \notin Elems(Rotation) /\ s \in Elems(RotationNext)) => NewRoundStep
             /\ NewRoundStep =>
                   \A s \in Seats : hand'[s] # {} => s \in Elems(RotationNext)
      ]_vars

\* the round's leader: the seat that made the last accepted play
Leader == IF prog = "main" THEN current_lead ELSE winning_seat
Holds(s) == s \in Seats /\ hand[s] # {}
\* the leader once the step is done: the seat whose play the step accepted
LeaderNext ==
    IF \E s \in Seats : hand'[s] # hand[s]
    THEN CHOOSE s \in Seats : hand'[s] # hand[s]
    ELSE Leader

(* C24: a round closes when its rotation has shrunk to one un-passed seat; *)
(* if the round's leader still holds cards, that leader is the one         *)
(* remaining seat, is never asked to beat its own play, and opens the next *)
(* round.  While the match runs: a seat is asked to beat the play of a     *)
(* leader that holds cards only while two or more seats are in the         *)
(* rotation, the leader one of them and not the seat on turn; a round is   *)
(* closed only from a rotation of at most two seats; a pass from a         *)
(* rotation of two, the leader holding cards, closes the round; and the    *)
(* leader of a closed round, if it holds cards, opens the next round.      *)
C24_LeaderOpensNextRound ==
    [][/\ (Running /\ Leading # NoPlay /\ Holds(Leader)) =>
             /\ Len(Rotation) >= 2
             /\ Leader \in Elems(Rotation)
             /\ Leader \notin OnTurn
       /\ (Running /\ NewRoundStep) => Len(Rotation) <= 2
       /\ \A seat \in OnTurn :
             (PassStep(seat) /\ Len(Rotation) = 2 /\ Holds(Leader) /\ RunningNext)
                => NewRoundStep
       /\ (Running /\ NewRoundStep /\ RunningNext /\ hand'[LeaderNext] # {}) =>
             Last(RotationNext) = LeaderNext
      ]_vars

\* main.py is at the opening prompt of a later round, and the seat asked to
\* open is the leader of the round just closed, which still holds cards and
\* whose play was the last one accepted
C24_Witness ==
    /\ prog = "main" /\ pc = "open" /\ ~first_round
    /\ current_lead # NoSeat
    /\ hand[current_lead] # {}
    /\ play # NoPlay
    /\ play.cards \subseteq dealt[current_lead]
    /\ Last(round_order) = current_lead
    /\ Len(round_order) >= 3

\* the first seat after seat l in table order that holds cards once the step
\* is done
ScanFrom(l) == [k \in 1..(Len(players) - 1) |-> ((l - 1 + k) % Len(players)) + 1]
EligibleFrom(l) == {k \in 1..(Len(players) - 1) : hand'[ScanFrom(l)[k]] # {}}
ScanForward(l) ==
    IF EligibleFrom(l) = {} THEN NoSeat
    ELSE ScanFrom(l)[CHOOSE k \in EligibleFrom(l) : \A j \in EligibleFrom(l) : k <= j]

(* C25: when a round closes and its leader has already emptied its hand,   *)
(* the next round is opened by the next eligible seat found by scanning    *)
(* forward from the leader in table order and skipping finished seats; the *)
(* chosen opener always holds at least one card.                           *)
C25_NextOpenerHoldsCards ==
    [][(Running /\ NewRoundStep /\ RunningNext /\ hand'[LeaderNext] = {}) =>
          /\ Last(RotationNext) = ScanForward(LeaderNext)
          /\ hand'[Last(RotationNext)] # {}
      ]_vars

\* a numeric line that names a position outside 1..N for a hand of N cards
OutOfRange(h, line) ==
    /\ line.kind = "numbers"
    /\ \E i \in line.pos : i < 1 \/ i > Cardinality(h)

(* C26: a submitted list of hand positions is accepted only if every       *)
(* position lies in 1..N, N the size of the acting seat's hand; a list     *)
(* with a position outside 1..N (such as 0) is rejected with no state      *)
(* change and selects no card.                                             *)
C26_PositionsInRange ==
    [][\/ UNCHANGED <<hand, seats, winners, min_card, first_round, pc,
                      round_order, play, current_lead, tstate, pstate, round,
                      ordered_seats, winning_card, winning_seat, played, emptied>>
       \/ \A seat \in OnTurn, line \in Lines :
             ~ /\ Running
               /\ OutOfRange(hand[seat], line)
               /\ \/ MainOpen(line) \/ MainFollow(line) \/ MainPickup(line)
                  \/ ServerPlay(seat, line)
      ]_vars

(* C27: in the network server, in every reachable state of a running match *)
(* at most one player is in the GET_PLAY state, and that player is the     *)
(* seat at the head of the current round's rotation (ordered_seats[-1]).   *)
C27_OneSeatAsked ==
    ServerRunning =>
        /\ Cardinality({p \in Seats : pstate[p] = "GET_PLAY"}) <= 1
        /\ \A p \in Seats :
              pstate[p] = "GET_PLAY" =>
                  Len(ordered_seats) > 0 /\ p = Last(ordered_seats)

\* in the middle of a round of three or more seats the turn has moved on:
\* the leader waits at the front of the rotation and the seat at its head,
\* and no other, is in GET_PLAY
C27_Witness ==
    /\ ServerRunning
    /\ winning_card # NoPlay
    /\ Len(ordered_seats) >= 3
    /\ ordered_seats[1] = winning_seat
    /\ pstate[winning_seat] = "PLAYING"
    /\ {p \in Seats : pstate[p] = "GET_PLAY"} = {Last(ordered_seats)}

-----------------------------------------------------------------------------
(* server.py: the lobby.  Connections are numbered in the order they are   *)
(* made; pstate, name and transport grow by one entry per connection.  The *)
(* match a start begins is not played here: it runs until Table.reset, or  *)
(* stays stuck after an instant win.                                       *)

MaxConn == 5
max_players == 4
NoName == 0
Conns == 1..Len(pstate)
\* the names a connection may give: one that was given before, or a new one
\* (the smallest number that is nobody's name)
Names == 1..MaxConn
Given == {name[c] : c \in Conns} \ {NoName}
NewName == CHOOSE n \in Names : n \notin Given /\ \A m \in Names : m < n => m \in Given
NameChoices == IF Given = Names THEN Given ELSE Given \cup {NewName}

\* Player.__eq__: (self.name, self.state) == (other.name, other.state)
PlayerEq(a, b) == name[a] = name[b] /\ pstate[a] = pstate[b]

\* the fields of the Table that join and leave may change
TState == [players |-> players, host |-> host, error |-> None]

\* a slip in the test below: the size of the table is not looked at
join_any(t, player) ==
    IF tstate # "LOBBY" THEN [t EXCEPT !.error = "RuntimeError"]
    ELSE [t EXCEPT !.host = IF t.host = NoSeat THEN player ELSE t.host,
                   !.players = Append(t.players, player)]

\* Table.join(player)
join(t, player) ==
    IF tstate # "LOBBY" THEN [t EXCEPT !.error = "RuntimeError"]
    ELSE IF Len(t.players) = max_players THEN [t EXCEPT !.error = "RuntimeError"]
    ELSE [t EXCEPT !.host = IF t.host = NoSeat THEN player ELSE t.host,
                   !.players = Append(t.players, player)]

\* Table.leave(player): list.remove drops the first element that is the
\* player or equal to it
leave(t, player) ==
    LET eq == {i \in 1..Len(t.players) :
                  t.players[i] = player \/ PlayerEq(t.players[i], player)}
    IN IF eq = {} THEN t
       ELSE LET i == CHOOSE k \in eq : \A j \in eq : k <= j
                ps == RemoveAt(t.players, i)
            IN [t EXCEPT !.players = ps,
                         !.host = IF player # t.host THEN t.host
                                  ELSE IF Len(ps) > 0 THEN ps[1] ELSE NoSeat]

\* PlayerFactory.buildProtocol, Player.__init__, connectionMade.  A
\* connection that has not given its name has no effect on the table, so
\* connections are made one at a time: when no other waits to give its name.
connectionMade ==
    /\ prog = "lobby" /\ Len(pstate) < MaxConn
    /\ \A c \in Conns : ~(pstate[c] = "GET_NAME" /\ transport[c] = "open")
    /\ pstate' = Append(pstate, "GET_NAME")
    /\ name' = Append(name, NoName)
    /\ transport' = Append(transport, "open")
    /\ error' = None
    /\ UNCHANGED <<ruleVars, prog, players, host, mainVars, gameVars, histVars,
                   roundVars, tstate, game, total_players>>

\* Player.handle_GET_NAME(name)
handle_GET_NAME(c, n) ==
    /\ prog = "lobby" /\ transport[c] = "open" /\ pstate[c] = "GET_NAME"
    /\ error' = None
    /\ IF \E p \in Elems(players) : name[p] = n
       THEN UNCHANGED <<players, host, name, pstate, transport>>
       ELSE LET t == join(TState, c) IN
            /\ name' = [name EXCEPT ![c] = n]
            /\ pstate' = [pstate EXCEPT ![c] = "LOBBY"]
            /\ players' = t.players
            /\ host' = t.host
            \* except RuntimeError: self.transport.loseConnection()
            /\ transport' = IF t.error = None THEN transport
                            ELSE [transport EXCEPT ![c] = "closing"]
    /\ UNCHANGED <<ruleVars, prog, mainVars, gameVars, histVars, roundVars,
                   tstate, game, total_players>>

\* Player.handle_LOBBY: "ready" from a player that is not the host
LobbyReady(c) ==
    /\ prog = "lobby" /\ transport[c] = "open" /\ pstate[c] = "LOBBY" /\ c # host
    /\ pstate' = [pstate EXCEPT ![c] = "READY"]
    /\ error' = None
    /\ UNCHANGED <<ruleVars, prog, players, host, name, transport, mainVars,
                   gameVars, histVars, roundVars, tstate, game, total_players>>

\* Player.handle_READY: "unready"
LobbyUnready(c) ==
    /\ prog = "lobby" /\ transport[c] = "open" /\ pstate[c] = "READY"
    /\ pstate' = [pstate EXCEPT ![c] = "LOBBY"]
    /\ error' = None
    /\ UNCHANGED <<ruleVars, prog, players, host, name, transport, mainVars,
                   gameVars, histVars, roundVars, tstate, game, total_players>>

\* Player.handle_LOBBY: the host's "start" with nobody unready, and
\* Table.start: the match begins with its first Round (the players leave
\* the lobby states), or an instant win is dealt and line 168 raises
LobbyStart(c, instant) ==
    /\ prog = "lobby" /\ transport[c] = "open" /\ pstate[c] = "LOBBY" /\ c = host
    /\ \A p \in Elems(players) : p = c \/ pstate[p] = "READY"
    /\ IF tstate = "STARTED"
       THEN /\ error' = "RuntimeError"
            /\ UNCHANGED <<tstate, game, round, pstate>>
       ELSE /\ tstate' = "STARTED"
            /\ game' = "Game"
            /\ IF instant
               THEN /\ error' = "AttributeError"
                    /\ UNCHANGED <<round, pstate>>
               ELSE /\ error' = None
                    /\ round' = "Round"
                    /\ pstate' = [p \in DOMAIN pstate |->
                                     IF p \in Elems(players) THEN "PLAYING"
                                     ELSE pstate[p]]
    /\ UNCHANGED <<ruleVars, prog, players, host, name, transport, mainVars,
                   gameVars, histVars, ordered_seats, winning_card, winning_seat,
                   total_players>>

\* Table.play, lines 175-177: the match is over, Table.reset
LobbyReset ==
    /\ prog = "lobby" /\ tstate = "STARTED" /\ round # None
    /\ \E p \in Conns : pstate[p] = "PLAYING" /\ transport[p] = "open"
    /\ pstate' = [p \in DOMAIN pstate |->
                     IF p \in Elems(players) THEN "LOBBY" ELSE pstate[p]]
    /\ tstate' = "LOBBY"
    /\ game' = None
    /\ round' = None
    /\ error' = None
    /\ UNCHANGED <<ruleVars, prog, players, host, name, transport, mainVars,
                   gameVars, histVars, ordered_seats, winning_card, winning_seat,
                   total_players>>

\* Player.connectionLost: self.table.leave(self).  The connection ends when
\* the client drops it, or some time after loseConnection (the line 'exit',
\* lines 42-44, or the failed join); a player that sent 'exit' does nothing
\* in between, so its 'exit' is not a step of its own.
connectionLost(c) ==
    /\ prog = "lobby" /\ transport[c] # "lost"
    /\ LET t == leave(TState, c) IN
       /\ players' = t.players
       /\ host' = t.host
       \* the fields of a Player that is gone and not at the table are
       \* never read again: they are cleared
       /\ name' = IF c \in Elems(t.players) THEN name ELSE [name EXCEPT ![c] = NoName]
       /\ pstate' = IF c \in Elems(t.players) THEN pstate
                    ELSE [pstate EXCEPT ![c] = "GET_NAME"]
    /\ transport' = [transport EXCEPT ![c] = "lost"]
    /\ error' = None
    /\ UNCHANGED <<ruleVars, prog, mainVars, gameVars, histVars,
                   roundVars, tstate, game, total_players>>

LobbyInit ==
    /\ prog = "lobby"
    /\ players = <<>>
    /\ TableInit
    /\ host = NoSeat
    /\ name = <<>>
    /\ transport = <<>>
    /\ r_cards = {}
    /\ r_to_beat = NoPlay
    /\ combination = NoComb
    /\ higher = NotRun
    /\ instant_win = NotRun

LobbyNext ==
    \/ connectionMade
    \/ \E c \in Conns, n \in NameChoices : handle_GET_NAME(c, n)
    \/ \E c \in Conns : LobbyReady(c)
    \/ \E c \in Conns : LobbyUnready(c)
    \/ \E c \in Conns, instant \in BOOLEAN : LobbyStart(c, instant)
    \/ LobbyReset
    \/ \E c \in Conns : connectionLost(c)

LobbySpec == LobbyInit /\ [][LobbyNext]_vars

(* C28: Table.join adds a player only when the table is in the LOBBY state *)
(* and holds fewer than 4 players; otherwise it raises and leaves the      *)
(* player list and the host unchanged; after any sequence of joins,        *)
(* leaves, starts and resets a table never holds more than 4 players and   *)
(* no player is added while a match is in progress.                        *)
C28_JoinOnlyInLobby ==
    [][/\ Len(players) <= max_players /\ Len(players') <= max_players
       /\ (\E p \in Elems(players') : p \notin Elems(players)) =>
             /\ tstate = "LOBBY"
             /\ Len(players) < max_players
             /\ players' = Append(players, players'[Len(players')])
       /\ \A c \in Conns, n \in Names :
             (handle_GET_NAME(c, n) /\ (tstate # "LOBBY" \/ Len(players) >= max_players))
                => UNCHANGED <<players, host>>
      ]_vars

\* a connection gave a free name while four players were at the table: it
\* holds the name and the LOBBY state, is not at the table and is being
\* closed
C28_Witness ==
    /\ prog = "lobby"
    /\ Len(players) = max_players
    /\ \E c \in Conns :
          /\ c \notin Elems(players)
          /\ pstate[c] = "LOBBY"
          /\ name[c] # NoName
          /\ transport[c] = "closing"

(* C29: for every hand of 13 distinct cards dealt from the single 52-card  *)
(* deck, has_instant_win never returns 'three quads': at most 4 cards      *)
(* share a rank, so such a hand has at least 4 distinct ranks and the      *)
(* exactly-3-distinct-ranks rule cannot fire.                              *)
C29_NoThreeQuadsInDeal ==
    (prog = "rule" /\ instant_win # NotRun /\ r_cards \subseteq DECK
        /\ Cardinality(r_cards) = 13) =>
        /\ \A r \in RanksOf(r_cards) : hand_count(r_cards)[r] <= 4
        /\ Cardinality(RanksOf(r_cards)) >= 4
        /\ ~has_three_quads(hand_count(r_cards))
        /\ instant_win # "three quads"

\* has_instant_win has answered for a 13-card hand that holds three ranks
\* four times each, and one more card
C29_Witness ==
    /\ prog = "rule" /\ instant_win # NotRun
    /\ Cardinality(r_cards) = 13
    /\ Cardinality({r \in RanksOf(r_cards) : hand_count(r_cards)[r] = 4}) = 3
    /\ ~has_four_twos(r_cards)
    /\ instant_win = "four triples"

=============================================================================
